---- MODULE Spec2Model ----
(***************************************************************************)
(* CORD-19 metadata dashboard: the fetcher (download_metadata.py,          *)
(* utils.download_dataset), the cleaner (utils.load_and_clean_data) and    *)
(* the Streamlit shell with its views (app.py).                            *)
(*                                                                         *)
(* Representation of data.  A CSV cell is a sequence: text is a sequence   *)
(* of one-character strings, a date string "y-m-d" is <<y, m, d>>.  The    *)
(* empty cell is <<>>, which pandas.read_csv reads as NaN; NaT is the      *)
(* same missing value in a datetime column.  A table is a sequence of      *)
(* rows; read_csv gives every row its RangeIndex label idx (0-based),      *)
(* which dropna and boolean indexing keep.                                 *)
(***************************************************************************)
EXTENDS Integers, Sequences, FiniteSets, TLC

VARIABLES
    remote,   \* the table held by metadata.csv inside the Kaggle archive
    file,     \* metadata.csv in the working directory
    scratch,  \* TRUE while a tempfile.TemporaryDirectory of the fetcher exists
    cache,    \* st.cache_data's memo of load_data()
    op,       \* the operation that ran last
    fetch,    \* what the fetcher did in the last operation
    load,     \* what load_and_clean_data did in the last operation
    view      \* what the last render pass of app.main showed

vars == <<remote, file, scratch, cache, op, fetch, load, view>>

----------------------------------------------------------------------------
(* Bounds of the input families *)

MaxRowsFlow == 2
MaxRowsClean == 2
MaxRowsView == 2
NumJournals == 11
MaxRepeat == 2

(* Program constants *)

TopN == 10
SampleN == 20

NaN == <<>>
NaT == <<>>

----------------------------------------------------------------------------
(* Small helpers over sequences *)

Range(s) == {s[i] : i \in 1..Len(s)}

Head_n(s, n) == SubSeq(s, 1, IF Len(s) < n THEN Len(s) ELSE n)

RECURSIVE SumSeq(_)
SumSeq(s) == IF s = <<>> THEN 0 ELSE Head(s) + SumSeq(Tail(s))

Column(df, c) == [i \in 1..Len(df) |-> df[i][c]]

----------------------------------------------------------------------------
(* pandas.read_csv: the rows of the file, labelled 0, 1, 2, ... *)

read_csv(rows) ==
    [i \in 1..Len(rows) |-> [idx |-> i - 1,
                             title |-> rows[i].title,
                             publish_time |-> rows[i].publish_time,
                             abstract |-> rows[i].abstract,
                             journal |-> rows[i].journal,
                             source_x |-> rows[i].source_x]]

(* DataFrame.dropna(subset=cols): keeps, in order, the rows with no missing
   value in any of cols *)
dropna(df, cols) == SelectSeq(df, LAMBDA r : \A c \in cols : r[c] # NaN)

IsLeap(y) == (y % 4 = 0 /\ y % 100 # 0) \/ y % 400 = 0

DaysInMonth(y, m) ==
    IF m = 2 THEN (IF IsLeap(y) THEN 29 ELSE 28)
    ELSE IF m \in {4, 6, 9, 11} THEN 30 ELSE 31

(* pd.to_datetime(value, errors='coerce') on one cell: the date when the
   string is a calendar date, NaT otherwise *)
to_datetime_bad_month(v) ==
    IF Len(v) = 3 /\ v[3] \in 1..DaysInMonth(v[1], v[2]) THEN v ELSE NaT

to_datetime(v) ==
    IF Len(v) = 3 /\ v[2] \in 1..12 /\ v[3] \in 1..DaysInMonth(v[1], v[2])
    THEN v ELSE NaT

(* len(x.split()): the number of whitespace-delimited tokens of a text, one
   for each character that is not a blank and starts the text or follows a
   blank *)
split_count(s) ==
    Cardinality({i \in 1..Len(s) : s[i] # " " /\ (i = 1 \/ s[i - 1] = " ")})

fillna(v, d) == IF v = NaN THEN d ELSE v

(* utils.load_and_clean_data, the cleaning of a DataFrame that was read:
   the cleaned table and the number printed as "Dropped ... rows" *)
first_dropna(df) == dropna(df, {"title", "publish_time"})

printed_dropped_both_passes(original_size, df1, df3) == original_size - Len(df3)

printed_dropped(original_size, df1, df3) == original_size - Len(df1)

clean(df0) ==
    LET original_size == Len(df0)
        df1 == first_dropna(df0)
        df2 == [i \in 1..Len(df1) |->
                   [df1[i] EXCEPT !.publish_time = to_datetime(@)]]
        df3 == dropna(df2, {"publish_time"})
        df4 == [i \in 1..Len(df3) |->
                   [idx |-> df3[i].idx,
                    title |-> df3[i].title,
                    publish_time |-> df3[i].publish_time,
                    abstract |-> df3[i].abstract,
                    journal |-> df3[i].journal,
                    source_x |-> df3[i].source_x,
                    year |-> df3[i].publish_time[1],
                    abstract_word_count |->
                        split_count(fillna(df3[i].abstract, <<>>))]]
    IN  [df |-> df4,
         dropped |-> printed_dropped(original_size, df1, df3),
         original_size |-> original_size]

----------------------------------------------------------------------------
(* The fetcher: download_metadata.py *)

Absent == [exists |-> FALSE, complete |-> FALSE, rows |-> <<>>]

Complete(rows) == [exists |-> TRUE, complete |-> TRUE, rows |-> rows]

(* open(metadata_file, 'wb') has created the file and copyfileobj stopped
   after n whole rows *)
Partial(rows, n) == [exists |-> TRUE, complete |-> FALSE, rows |-> SubSeq(rows, 1, n)]

(* What the environment does to one run of the download script *)
ScriptOutcomes ==
    {"import_error", "auth_fail", "download_exc", "no_zip", "no_member",
     "copy_exc", "ok"}

(* ... and to subprocess.run itself *)
SpawnOutcomes == ScriptOutcomes \cup {"spawn_exc"}

NoFetch ==
    [invoked |-> FALSE, existed |-> FALSE, ret |-> "-", auth |-> FALSE,
     downloaded |-> FALSE, tempdir |-> FALSE, wrote |-> FALSE,
     spawned |-> FALSE, returncode |-> -1, ds |-> "-"]

BoolStr(b) == IF b THEN "True" ELSE "False"

(* The body of "with tempfile.TemporaryDirectory() as temp_dir": the
   directory exists while it runs *)
download_in_tempdir(f, rem, o, n) ==
    LET base == [file |-> f, scratch |-> TRUE, ret |-> FALSE, auth |-> TRUE,
                 downloaded |-> TRUE, tempdir |-> TRUE, wrote |-> FALSE]
    IN  IF o \in {"download_exc", "no_zip", "no_member"} THEN base
        ELSE IF o = "copy_exc"
             THEN [base EXCEPT !.file = Partial(rem, n), !.wrote = TRUE]
        ELSE [base EXCEPT !.file = Complete(rem), !.wrote = TRUE, !.ret = TRUE]

(* Leaving the with block removes the directory, on return and on exception *)
TemporaryDirectory_exit(r) == [r EXCEPT !.scratch = FALSE]

download_metadata_only_fetch(f, rem, o, n) ==
    IF o = "auth_fail"
    THEN [file |-> f, scratch |-> FALSE, ret |-> FALSE, auth |-> TRUE,
          downloaded |-> FALSE, tempdir |-> FALSE, wrote |-> FALSE]
    ELSE TemporaryDirectory_exit(download_in_tempdir(f, rem, o, n))

download_metadata_only(f, rem, o, n) ==
    IF f.exists
    THEN [file |-> f, scratch |-> FALSE, ret |-> TRUE, auth |-> FALSE,
          downloaded |-> FALSE, tempdir |-> FALSE, wrote |-> FALSE]
    ELSE download_metadata_only_fetch(f, rem, o, n)

(* One run of "python download_metadata.py": the import guard, then main().
   main() prints the outcome and returns, so the process exits with 0
   whatever download_metadata_only returned; only the import guard exits 1 *)
download_metadata_script(f, rem, o, n) ==
    IF o = "import_error"
    THEN [file |-> f, scratch |-> FALSE, returncode |-> 1,
          fetch |-> [NoFetch EXCEPT !.returncode = 1]]
    ELSE LET r == download_metadata_only(f, rem, o, n)
         IN  [file |-> r.file, scratch |-> r.scratch, returncode |-> 0,
              fetch |-> [invoked |-> TRUE, existed |-> f.exists,
                         ret |-> BoolStr(r.ret), auth |-> r.auth,
                         downloaded |-> r.downloaded, tempdir |-> r.tempdir,
                         wrote |-> r.wrote, spawned |-> FALSE,
                         returncode |-> 0, ds |-> "-"]]

----------------------------------------------------------------------------
(* utils.download_dataset *)

download_dataset_spawn(f, rem, o, n) ==
    IF o = "spawn_exc"
    THEN [file |-> f, scratch |-> FALSE, ret |-> FALSE,
          fetch |-> [NoFetch EXCEPT !.spawned = TRUE, !.ds = "False"]]
    ELSE LET p == download_metadata_script(f, rem, o, n)
         IN  [file |-> p.file, scratch |-> p.scratch,
              ret |-> (p.returncode = 0),
              fetch |-> [p.fetch EXCEPT !.spawned = TRUE,
                                        !.ds = BoolStr(p.returncode = 0)]]

download_dataset_no_exists_check(f, rem, o, n) ==
    download_dataset_spawn(f, rem, o, n)

download_dataset(f, rem, o, n) ==
    IF ~f.exists
    THEN download_dataset_spawn(f, rem, o, n)
    ELSE [file |-> f, scratch |-> FALSE, ret |-> TRUE,
          fetch |-> [NoFetch EXCEPT !.existed = TRUE, !.ds = "True"]]

----------------------------------------------------------------------------
(* utils.load_and_clean_data *)

NoLoad ==
    [called |-> FALSE, result |-> "-", reached_read |-> FALSE,
     original_size |-> 0, dropped |-> 0, df |-> <<>>]

load_and_clean_data(f, rem, o, n) ==
    LET d == download_dataset(f, rem, o, n)
        c == clean(read_csv(d.file.rows))
    IN  [file |-> d.file, scratch |-> d.scratch, fetch |-> d.fetch,
         load |->
            IF ~d.ret
            THEN [NoLoad EXCEPT !.called = TRUE, !.result = "None"]
            ELSE IF ~d.file.exists
            THEN [NoLoad EXCEPT !.called = TRUE, !.result = "raised",
                                !.reached_read = TRUE]
            ELSE [called |-> TRUE, result |-> "df", reached_read |-> TRUE,
                  original_size |-> c.original_size, dropped |-> c.dropped,
                  df |-> c.df]]

----------------------------------------------------------------------------
(* pandas operations used by the views *)

(* The boolean mask df[(df['year'] >= year_range[0]) & (df['year'] <=
   year_range[1])], written out in each view and in main *)
filter_by_year_exclusive(df, year_range) ==
    SelectSeq(df, LAMBDA r : r.year >= year_range[1] /\ r.year < year_range[2])

filter_by_year(df, year_range) ==
    SelectSeq(df, LAMBDA r : r.year >= year_range[1] /\ r.year <= year_range[2])

RECURSIVE uniques(_, _)
uniques(vals, acc) ==
    IF vals = <<>> THEN acc
    ELSE uniques(Tail(vals),
                 IF Head(vals) \in Range(acc) THEN acc ELSE Append(acc, Head(vals)))

(* The groups of a column in order of first appearance, with their sizes *)
groups(vals) ==
    LET u == uniques(vals, <<>>)
    IN  [i \in 1..Len(u) |->
            [key |-> u[i],
             count |-> Cardinality({k \in 1..Len(vals) : vals[k] = u[i]})]]

RECURSIVE insert_desc(_, _)
insert_desc(sorted, e) ==
    IF sorted = <<>> THEN <<e>>
    ELSE IF Head(sorted).count >= e.count
         THEN <<Head(sorted)>> \o insert_desc(Tail(sorted), e)
         ELSE <<e>> \o sorted

RECURSIVE sort_values_acc(_, _)
sort_values_acc(gs, acc) ==
    IF gs = <<>> THEN acc ELSE sort_values_acc(Tail(gs), insert_desc(acc, Head(gs)))

(* Series.sort_values(ascending=False) inside value_counts: by count,
   largest first, equal counts in order of first appearance *)
sort_values_desc(gs) == sort_values_acc(gs, <<>>)

RECURSIVE insert_by_key(_, _)
insert_by_key(sorted, e) ==
    IF sorted = <<>> THEN <<e>>
    ELSE IF Head(sorted).key <= e.key
         THEN <<Head(sorted)>> \o insert_by_key(Tail(sorted), e)
         ELSE <<e>> \o sorted

RECURSIVE sort_index_acc(_, _)
sort_index_acc(gs, acc) ==
    IF gs = <<>> THEN acc ELSE sort_index_acc(Tail(gs), insert_by_key(acc, Head(gs)))

(* Series.sort_index(): ascending by key *)
sort_index(gs) == sort_index_acc(gs, <<>>)

(* Series.value_counts() of a text column: dropna=True is the default, so
   missing values form no group *)
value_counts_keep_nan(col) == sort_values_desc(groups(col))

value_counts(col) ==
    sort_values_desc(groups(SelectSeq(col, LAMBDA v : v # NaN)))

(* ' '.join(titles) *)
RECURSIVE join(_)
join(texts) ==
    IF texts = <<>> THEN <<>>
    ELSE IF Len(texts) = 1 THEN Head(texts)
    ELSE Head(texts) \o <<" ">> \o join(Tail(texts))

(* f"{x:.1f}" of sum/n, in tenths (ties to even, exact for n <= 4) *)
format_1f(sum, n) ==
    LET q == (10 * sum) \div n
        r == (10 * sum) % n
    IN  IF 2 * r > n THEN q + 1
        ELSE IF 2 * r < n THEN q
        ELSE IF q % 2 = 0 THEN q ELSE q + 1

----------------------------------------------------------------------------
(* The views of app.py *)

(* value_counts().sort_index() of the year column, which is an integer
   column with no missing value after cleaning *)
plot_publications_per_year(df, year_range) ==
    sort_index(sort_values_desc(
        groups(Column(filter_by_year(df, year_range), "year"))))

plot_top_journals_unsorted(df, year_range) ==
    Head_n(groups(SelectSeq(Column(filter_by_year(df, year_range), "journal"),
                            LAMBDA v : v # NaN)), TopN)

plot_top_journals(df, year_range) ==
    Head_n(value_counts(Column(filter_by_year(df, year_range), "journal")), TopN)

(* WordCloud.generate raises ValueError ("We need at least 1 word to plot a
   word cloud") on a text with no word *)
plot_wordcloud(df, year_range) ==
    LET filtered == filter_by_year(df, year_range)
        text == join(Column(dropna(filtered, {"title"}), "title"))
    IN  [text |-> text, raised |-> split_count(text) = 0]

plot_source_distribution_keep_nan(df, year_range) ==
    value_counts_keep_nan(Column(filter_by_year(df, year_range), "source_x"))

plot_source_distribution(df, year_range) ==
    value_counts(Column(filter_by_year(df, year_range), "source_x"))

sample_data(df, year_range) == Head_n(filter_by_year(df, year_range), SampleN)

(* len(filtered_data) and f"{filtered_data['abstract_word_count'].mean():.1f}":
   the mean of an empty Series is NaN, which formats as "nan" *)
summary_statistics(df, year_range) ==
    LET filtered == filter_by_year(df, year_range)
        n == Len(filtered)
    IN  [count |-> n,
         mean_text |-> IF n = 0 THEN "nan" ELSE "number",
         mean_tenths |->
            IF n = 0 THEN 0
            ELSE format_1f(SumSeq(Column(filtered, "abstract_word_count")), n)]

(* The order in which main renders, inside its one try block *)
ViewOrder == <<"yearly", "journals", "wordcloud", "source", "sample", "summary">>

view_raises(name, df, year_range) ==
    name = "wordcloud" /\ plot_wordcloud(df, year_range).raised

(* The statements of the try block run in order until one raises; the except
   clause then shows the error and nothing after it runs *)
RECURSIVE run_views(_, _, _, _)
run_views(names, df, year_range, done) ==
    IF names = <<>> THEN [rendered |-> done, failed |-> "-"]
    ELSE IF view_raises(Head(names), df, year_range)
         THEN [rendered |-> done, failed |-> Head(names)]
         ELSE run_views(Tail(names), df, year_range, Append(done, Head(names)))

NoStats == [count |-> -1, mean_text |-> "-", mean_tenths |-> 0]

NoView ==
    [shown |-> "-", year_range |-> <<>>, rendered |-> <<>>, failed |-> "-",
     df |-> <<>>, yearly |-> <<>>, top_journals |-> <<>>, source_counts |-> <<>>,
     sample |-> <<>>, stats |-> NoStats]

render(df, year_range) ==
    LET v == run_views(ViewOrder, df, year_range, <<>>)
        did(name) == name \in Range(v.rendered)
    IN  [shown |-> IF v.failed = "-" THEN "ok" ELSE "error",
         year_range |-> year_range,
         rendered |-> v.rendered,
         failed |-> v.failed,
         df |-> df,
         yearly |-> IF did("yearly")
                    THEN plot_publications_per_year(df, year_range) ELSE <<>>,
         top_journals |-> IF did("journals")
                          THEN plot_top_journals(df, year_range) ELSE <<>>,
         source_counts |-> IF did("source")
                           THEN plot_source_distribution(df, year_range) ELSE <<>>,
         sample |-> IF did("sample") THEN sample_data(df, year_range) ELSE <<>>,
         stats |-> IF did("summary")
                   THEN summary_statistics(df, year_range) ELSE NoStats]

SetMin(S) == CHOOSE x \in S : \A y \in S : x <= y

SetMax(S) == CHOOSE x \in S : \A y \in S : x >= y

----------------------------------------------------------------------------
(* Operations *)

Years == 2019..2021

NoCache == [set |-> FALSE, result |-> "-", df |-> <<>>]

(* What the environment can do to a run of the script: it is consulted only
   on the paths the code takes (the import guard always, the rest only when
   metadata.csv is missing); n is the number of rows copied before copy_exc *)
ScriptChoices(f, rem) ==
    IF f.exists THEN {<<"import_error", 0>>, <<"ok", 0>>}
    ELSE {<<o, 0>> : o \in ScriptOutcomes \ {"copy_exc"}}
         \cup {<<"copy_exc", n>> : n \in 0..Len(rem)}

SpawnChoices(f, rem) ==
    IF f.exists THEN {<<"ok", 0>>}
    ELSE {<<o, 0>> : o \in SpawnOutcomes \ {"copy_exc"}}
         \cup {<<"copy_exc", n>> : n \in 0..Len(rem)}

(* st.sidebar.slider('Select Year Range', min_year, max_year, ...): any
   range inside the bounds *)
SliderChoices(min_year, max_year) ==
    {yr \in Years \X Years : min_year <= yr[1] /\ yr[1] <= yr[2] /\ yr[2] <= max_year}

(* python download_metadata.py *)
RunDownloadScript ==
    \E e \in ScriptChoices(file, remote) :
        LET p == download_metadata_script(file, remote, e[1], e[2])
        IN  /\ op' = "download_metadata"
            /\ file' = p.file
            /\ scratch' = p.scratch
            /\ fetch' = p.fetch
            /\ load' = NoLoad
            /\ view' = NoView
            /\ UNCHANGED <<remote, cache>>

(* utils.download_dataset(), as test_download.py calls it *)
DownloadDataset ==
    \E e \in SpawnChoices(file, remote) :
        LET d == download_dataset(file, remote, e[1], e[2])
        IN  /\ op' = "download_dataset"
            /\ file' = d.file
            /\ scratch' = d.scratch
            /\ fetch' = d.fetch
            /\ load' = NoLoad
            /\ view' = NoView
            /\ UNCHANGED <<remote, cache>>

(* utils.load_and_clean_data(), as test_download.py calls it *)
LoadAndCleanData ==
    \E e \in SpawnChoices(file, remote) :
        LET l == load_and_clean_data(file, remote, e[1], e[2])
        IN  /\ op' = "load_and_clean_data"
            /\ file' = l.file
            /\ scratch' = l.scratch
            /\ fetch' = l.fetch
            /\ load' = l.load
            /\ view' = NoView
            /\ UNCHANGED <<remote, cache>>

(* app.main(): one run of the Streamlit script.  load_data() is memoised by
   st.cache_data (a returned None too, a raised exception not); the slider
   gives a range inside [min_year, max_year]; int(NaN) raises on a table
   with no row *)
main ==
    \E e \in (IF cache.set THEN {<<"ok", 0>>} ELSE SpawnChoices(file, remote)) :
        LET l == load_and_clean_data(file, remote, e[1], e[2])
            hit == cache.set
            result == IF hit THEN cache.result ELSE l.load.result
            df == IF hit THEN cache.df ELSE l.load.df
            years == Range(Column(df, "year"))
        IN  /\ op' = "main"
            /\ file' = IF hit THEN file ELSE l.file
            /\ scratch' = IF hit THEN scratch ELSE l.scratch
            /\ fetch' = IF hit THEN NoFetch ELSE l.fetch
            /\ load' = IF hit THEN NoLoad ELSE l.load
            /\ cache' = IF hit \/ result = "raised" THEN cache
                        ELSE [set |-> TRUE, result |-> result, df |-> df]
            /\ IF result = "df" /\ df # <<>>
               THEN \E yr \in SliderChoices(SetMin(years), SetMax(years)) :
                        view' = render(df, yr)
               ELSE view' = [NoView EXCEPT
                                !.shown = IF result = "None" THEN "load_failed"
                                          ELSE "error"]
            /\ UNCHANGED remote

----------------------------------------------------------------------------
(* Input families *)

Tables(Rows, n) == UNION {[1..k -> Rows] : k \in 0..n}

Flu == <<"f", "l", "u">>

Words2 == <<"x", " ", "y">>

J(k) == <<"J", k>>

S1 == <<"S", 1>>

RowsOf(titles, times, abstracts, journals, sources) ==
    [title : titles, publish_time : times, abstract : abstracts,
     journal : journals, source_x : sources]

FlowRows ==
    RowsOf({Flu}, {<<2019, 5, 1>>, <<2021, 1, 15>>}, {NaN, Words2}, {J(1)}, {S1})

CleanRows ==
    RowsOf({NaN, Flu}, {NaN, <<2020, 2, 29>>, <<2021, 2, 29>>, <<2021, 13, 1>>},
           {NaN, Words2}, {NaN, J(1)}, {NaN, S1})

ViewRows ==
    RowsOf({Flu}, {<<2019, 5, 1>>, <<2021, 1, 15>>}, {Words2},
           {NaN, J(1), J(2)}, {NaN, S1})

(* Journals 1..NumJournals once each, then rep more rows for each of the
   journals a..b *)
TopRow(k) ==
    [title |-> Flu, publish_time |-> <<2020, 2, 29>>, abstract |-> NaN,
     journal |-> J(k), source_x |-> S1]

TopTable(a, b, rep) ==
    [i \in 1..NumJournals |-> TopRow(i)]
    \o [i \in 1..((b - a + 1) * rep) |-> TopRow(a + ((i - 1) % (b - a + 1)))]

TopTables ==
    {TopTable(a, b, rep) :
        a \in 1..NumJournals, b \in 0..NumJournals, rep \in 1..MaxRepeat}

InitWith(tables, present) ==
    /\ remote \in tables
    /\ file = IF present THEN Complete(remote) ELSE Absent
    /\ scratch = FALSE
    /\ cache = NoCache
    /\ op = "init"
    /\ fetch = NoFetch
    /\ load = NoLoad
    /\ view = NoView

(* A fresh checkout: no metadata.csv yet *)
Init == InitWith(Tables(FlowRows, MaxRowsFlow), FALSE)

Next == RunDownloadScript \/ DownloadDataset \/ LoadAndCleanData \/ main

Spec == Init /\ [][Next]_vars

(* The cleaner over raw tables already on disk *)
InitClean == InitWith(Tables(CleanRows, MaxRowsClean), TRUE)

NextClean == LoadAndCleanData

SpecClean == InitClean /\ [][NextClean]_vars

(* The shell and its views over tables already on disk *)
InitView == InitWith(Tables(ViewRows, MaxRowsView), TRUE)

NextView == main

SpecView == InitView /\ [][NextView]_vars

(* The top-journals view over tables with more journals than it shows *)
InitTop == InitWith(TopTables, TRUE)

SpecTop == InitTop /\ [][NextView]_vars

----------------------------------------------------------------------------
(* Properties *)

Loaded == op = "load_and_clean_data" /\ load.result = "df"

(* The raw table load_and_clean_data read, as read_csv labels it *)
RawRead == read_csv(file.rows)

MonthLengths == <<31, 28, 31, 30, 31, 30, 31, 31, 30, 31, 30, 31>>

ValidCalendarDate(v) ==
    /\ Len(v) = 3
    /\ v[2] >= 1 /\ v[2] <= 12
    /\ v[3] >= 1
    /\ v[3] <= MonthLengths[v[2]]
                 + (IF v[2] = 2 /\ v[1] % 4 = 0 /\ (v[1] % 100 # 0 \/ v[1] % 400 = 0)
                    THEN 1 ELSE 0)

Keepable(r) ==
    r.title # NaN /\ r.publish_time # NaN /\ ValidCalendarDate(r.publish_time)

StrictlyIncreasingIdx(df) ==
    \A i \in 1..Len(df) : \A j \in 1..Len(df) : i < j => df[i].idx < df[j].idx

(* C1: when metadata.csv does not exist after the download step,
   download_dataset reports failure and load_and_clean_data returns None
   without reaching the CSV read. *)
C1_LoadFailureSignalled ==
    (op = "load_and_clean_data" /\ ~file.exists) =>
        (fetch.ds = "False" /\ load.result = "None" /\ ~load.reached_read)

(* C2: every row retained by load_and_clean_data has a title, a publish_time
   that is a valid calendar date and the year of that date; the retained rows
   are exactly the raw rows with a title and a parseable publish_time, in
   their order and with their other cells (abstract, journal, source_x,
   whether missing or not) as they were read. *)
C2_RetainedRowsExact ==
    Loaded =>
        /\ StrictlyIncreasingIdx(load.df)
        /\ {r.idx : r \in Range(load.df)}
              = {r.idx : r \in {x \in Range(RawRead) : Keepable(x)}}
        /\ \A r \in Range(load.df) :
              /\ r.title # NaN
              /\ ValidCalendarDate(r.publish_time)
              /\ r.year \in Int
              /\ r.year = r.publish_time[1]
              /\ \E x \in Range(RawRead) :
                    /\ x.idx = r.idx
                    /\ x.title = r.title
                    /\ x.publish_time = r.publish_time
                    /\ x.abstract = r.abstract
                    /\ x.journal = r.journal
                    /\ x.source_x = r.source_x

C2_Witness ==
    /\ Loaded
    /\ Len(file.rows) = 2
    /\ Len(load.df) = 1
    /\ \E x \in Range(RawRead) :
          x.title # NaN /\ x.publish_time # NaN /\ ~ValidCalendarDate(x.publish_time)
    /\ \E r \in Range(load.df) :
          r.abstract = NaN /\ r.journal = NaN /\ r.source_x = NaN

(* C3, as claimed: the dropped-row count printed by the cleaner equals
   raw_row_count - cleaned_row_count, so it covers both drop passes. *)
C3_DroppedCountCoversBothPasses ==
    Loaded => load.dropped = Len(file.rows) - Len(load.df)

(* C3, amended: the dropped-row count printed by the cleaner is the number of
   raw rows with a missing title or a missing publish_time (the first pass
   alone); raw_row_count - cleaned_row_count is that number plus the number
   of rows whose publish_time is present and does not parse. *)
C3_DroppedCountIsFirstPass ==
    Loaded =>
        LET missing == {x \in Range(RawRead) : x.title = NaN \/ x.publish_time = NaN}
            unparsed == {x \in Range(RawRead) :
                            /\ x.title # NaN
                            /\ x.publish_time # NaN
                            /\ ~ValidCalendarDate(x.publish_time)}
        IN  /\ load.original_size = Len(file.rows)
            /\ load.dropped = Cardinality(missing)
            /\ Len(file.rows) - Len(load.df)
                  = load.dropped + Cardinality(unparsed)

C3_Witness ==
    /\ Loaded
    /\ load.dropped = 1
    /\ Len(file.rows) - Len(load.df) = 2

(* C4: in every operation that starts while metadata.csv exists, the fetcher
   returns success without authentication, download, temporary directory,
   subprocess or write, and the file is left as it was. *)
C4_ExistingFileShortCircuits ==
    [][file.exists =>
          /\ file' = file
          /\ scratch' = scratch
          /\ ~fetch'.auth
          /\ ~fetch'.downloaded
          /\ ~fetch'.tempdir
          /\ ~fetch'.spawned
          /\ ~fetch'.wrote
          /\ (fetch'.invoked => fetch'.ret = "True")
          /\ (op' \in {"download_dataset", "load_and_clean_data"}
                 => fetch'.ds = "True")]_vars

C4_Witness ==
    /\ op = "download_dataset"
    /\ fetch.existed
    /\ fetch.ds = "True"
    /\ ~fetch.spawned
    /\ file = Complete(remote)
    /\ Len(remote) > 0

(* C5: after every run of the fetcher the scratch directory is gone, and when
   download_metadata_only returned failure no metadata.csv, complete or
   partial, is in the working directory. *)
C5_NoResidueOnFailure ==
    /\ scratch = FALSE
    /\ (fetch.invoked /\ fetch.ret = "False") => ~file.exists

(* C6: in a render pass of main over a loaded table (here: of a completely
   fetched file), when one view fails every other view of the pass is still
   rendered. *)
C6_SiblingViewsRendered ==
    (op = "main" /\ file.complete /\ view.failed # "-") =>
        \A name \in Range(ViewOrder) \ {view.failed} :
            name \in Range(view.rendered)

(* C7: on a year range that contains no row of the table (here: of a
   completely fetched file), the summary statistics are shown, with a row
   count of 0 and "no data" for the mean abstract word count. *)
C7_EmptySubsetReportsNoData ==
    (/\ op = "main"
     /\ file.complete
     /\ view.year_range # <<>>
     /\ \A r \in Range(view.df) :
           r.year < view.year_range[1] \/ r.year > view.year_range[2]) =>
        /\ "summary" \in Range(view.rendered)
        /\ view.stats.count = 0
        /\ view.stats.mean_text = "no data"

Rendered(name) == op = "main" /\ name \in Range(view.rendered)

(* The rows of the base table inside the selected year range *)
Wanted ==
    {r \in Range(view.df) :
        view.year_range[1] <= r.year /\ r.year <= view.year_range[2]}

GroupsFor(gs, key) == {i \in 1..Len(gs) : gs[i].key = key}

CountFor(gs, key) ==
    IF GroupsFor(gs, key) = {} THEN 0
    ELSE gs[CHOOSE i \in GroupsFor(gs, key) : TRUE].count

SumCounts(gs) == SumSeq([i \in 1..Len(gs) |-> gs[i].count])

(* C8: the subset every view works on is exactly the rows of the base table
   with min_year <= year <= max_year, in their order: a range (y, y) gives
   the rows of year y, the full year span gives the whole table, and the
   base table is the cleaned table, unaltered. *)
C8_FilterInclusiveExact ==
    (op = "main" /\ view.year_range # <<>>) =>
        /\ cache.set /\ view.df = cache.df
        /\ view.df = clean(read_csv(file.rows)).df
        /\ Rendered("sample") =>
              /\ Range(view.sample) = Wanted
              /\ Len(view.sample) = Cardinality(Wanted)
              /\ StrictlyIncreasingIdx(view.sample)
              /\ (view.year_range[1] = view.year_range[2] =>
                     \A r \in Range(view.sample) : r.year = view.year_range[1])
              /\ ((\A r \in Range(view.df) :
                      view.year_range[1] <= r.year /\ r.year <= view.year_range[2])
                     => view.sample = view.df)
        /\ Rendered("yearly") =>
              \A y \in Years :
                  /\ Cardinality(GroupsFor(view.yearly, y)) <= 1
                  /\ CountFor(view.yearly, y)
                        = Cardinality({r \in Wanted : r.year = y})
        /\ Rendered("summary") => view.stats.count = Cardinality(Wanted)

C8_Witness ==
    /\ Rendered("sample")
    /\ view.year_range = <<2021, 2021>>
    /\ Len(view.sample) = 1
    /\ Len(view.df) = 2
    /\ view.df[1].year = 2019

(* C9, as claimed: rows with a missing source_x are counted as a group of
   their own, so the group counts of the source-distribution view add up to
   the number of rows of the filtered subset. *)
C9_MissingCountedAsOwnBucket ==
    Rendered("source") => SumCounts(view.source_counts) = Cardinality(Wanted)

(* C9, amended: rows with a missing journal or source_x pass through cleaning
   untouched, and the top-journals and source-distribution views leave them
   out: no group stands for the missing value, every group's count is the
   number of subset rows with that value, and the group counts of the
   source-distribution view add up to the number of subset rows whose
   source_x is not missing. *)
C9_MissingLeftOutOfCounts ==
    (op = "main" /\ view.year_range # <<>>) =>
        /\ \A x \in Range(RawRead) :
              Keepable(x) =>
                  \E r \in Range(view.df) :
                      r.idx = x.idx /\ r.journal = x.journal
                                    /\ r.source_x = x.source_x
        /\ Rendered("source") =>
              /\ \A i \in 1..Len(view.source_counts) :
                    /\ view.source_counts[i].key # NaN
                    /\ view.source_counts[i].count
                          = Cardinality({r \in Wanted :
                                r.source_x = view.source_counts[i].key})
              /\ SumCounts(view.source_counts)
                    = Cardinality({r \in Wanted : r.source_x # NaN})
        /\ Rendered("journals") =>
              \A i \in 1..Len(view.top_journals) :
                  /\ view.top_journals[i].key # NaN
                  /\ view.top_journals[i].count
                        = Cardinality({r \in Wanted :
                              r.journal = view.top_journals[i].key})

C9_Witness ==
    /\ Rendered("source")
    /\ Len(view.source_counts) = 1
    /\ \E r \in Wanted : r.source_x = NaN /\ r.journal # NaN
    /\ \E r \in Wanted : r.journal = NaN /\ r.source_x # NaN

(* C10: the top-journals view shows at most 10 groups, each with the number
   of subset rows of its journal, in non-increasing order of that number,
   and no journal it leaves out has more rows than one it shows. *)
C10_TopJournals ==
    Rendered("journals") =>
        LET top == view.top_journals
            shown == {top[i].key : i \in 1..Len(top)}
            cnt(j) == Cardinality({r \in Wanted : r.journal = j})
        IN  /\ Len(top) <= 10
            /\ Cardinality(shown) = Len(top)
            /\ \A i \in 1..Len(top) : top[i].count = cnt(top[i].key)
            /\ \A i \in 1..Len(top) : \A k \in 1..Len(top) :
                  i < k => top[i].count >= top[k].count
            /\ \A j \in ({r.journal : r \in Wanted} \ {NaN}) \ shown :
                  \A i \in 1..Len(top) : cnt(j) <= top[i].count

C10_Witness ==
    /\ Rendered("journals")
    /\ Cardinality({r.journal : r \in Wanted}) > 10
    /\ Len(view.top_journals) = 10
    /\ view.top_journals[1].key = J(NumJournals)
    /\ view.top_journals[1].count > view.top_journals[10].count

====
